---- MODULE Spec2Model ----
(***************************************************************************)
(* Model of fuzz/librawspeed/decompressors/HuffmanTable/Dual.cpp: the     *)
(* differential harness that builds two Huffman-table decoders from one   *)
(* byte buffer and cross-checks them step by step.                         *)
(*                                                                         *)
(* The decoders, the bit pumps and the byte streams are collaborators of   *)
(* the harness.  Their answers (structural failure, number of code bytes,  *)
(* full-decode flag, decoded value, bits consumed) are chosen freely at    *)
(* each call, so that every disagreement the harness is meant to detect    *)
(* can occur; the only rule is the byte stream's: a read that needs more   *)
(* than what is left raises IOException.                                   *)
(*                                                                         *)
(* Two invocations on the same buffer are modelled side by side (inv and   *)
(* twin).  They receive the same collaborator answers, but each gets its   *)
(* own indeterminate values for the locals the code leaves uninitialized.  *)
(***************************************************************************)
EXTENDS Integers, Sequences, FiniteSets, TLC

VARIABLES Data, inv, twin

vars == <<Data, inv, twin>>

(* ---------------------------- bounds ----------------------------------- *)
MaxSize    == 21   \* longest input buffer
MaxCount   == 2    \* largest number of code values a table may announce
MaxCodeLen == 2    \* most bits one decode call may ask for
MaxByte    == 3    \* bytes after the header range over 0..MaxByte

(* ------------------------ program constants ---------------------------- *)
CountsLen   == 16  \* n-codes-per-length bytes
FlagsLen    == 2   \* fixDNGBug16 and fullDecode bytes
MinHeader   == 19  \* assert(bs0.getPosition() >= 19)
BitsPerByte == 8

Byte   == 0 .. MaxByte
Values == {0, 5}           \* decoded values, and what an unset int may hold

(* ----------------------------- buffers --------------------------------- *)
Zeros(n) == [i \in 1 .. n |-> 0]

\* Scenario A: sixteen zero counts, then trailing bytes.
HeaderA == Zeros(CountsLen + 3)
\* Scenario B: one code of length 1 mapped to 5, fixDNGBug16 off, fullDecode on.
HeaderB == <<1>> \o Zeros(CountsLen - 1) \o <<5, 0, 1>>

\* What follows the header is opaque to the harness but for the selector
\* byte, so the bytes after the header all carry the same value.
Tails == {[i \in 1 .. (MaxSize - MinHeader) |-> b] : b \in Byte}

Prefix(s, n) == [i \in 1 .. n |-> s[i]]

Buffers ==
    {Prefix(HeaderA, n) : n \in 0 .. MinHeader}
      \cup {Prefix(HeaderB \o t, n) : t \in Tails, n \in 0 .. MaxSize}

Size == Len(Data)

(* ------------------------- exception classes --------------------------- *)
\* "none": no exception; "RSE": a RawspeedException that is not an
\* IOException (structural failure); "IOE": rawspeed::IOException.
Exceptions == {"RSE", "IOE"}

\* IOException derives from RawspeedException.
IsRawspeedException(e) == e \in {"RSE", "IOE"}
IsIOException(e) == e = "IOE"

(* --------------------------- ByteStream -------------------------------- *)
\* ByteStream::check(n): true when n more bytes can be read at pos.
Check(pos, n) == pos + n <= Size

\* ByteStream::skipBytes(n)
skipBytes(pos, n) ==
    IF Check(pos, n) THEN [exc |-> "none", pos |-> pos + n]
                     ELSE [exc |-> "IOE", pos |-> pos]

\* ByteStream::getByte()
getByte(pos) ==
    IF Check(pos, 1) THEN [exc |-> "none", pos |-> pos + 1, byte |-> Data[pos + 1]]
                     ELSE [exc |-> "IOE", pos |-> pos, byte |-> 0]

(* ----------------------- decoder construction -------------------------- *)
\* What one implementation answers while its table is built:
\*   fails : the call that throws a structural failure, if any
\*   count : the number of code values setNCodesPerLength announces
\*   full  : what isFullDecode() reports afterwards
ImplAnswers ==
    [fails : {"none", "counts", "values", "setup"},
     count : 0 .. MaxCount,
     full  : BOOLEAN]

NoTable == [built |-> FALSE, full |-> TRUE]

\* createHuffmanTable<T>(bs): 16 count bytes, count code values, 2 flag bytes.
createHuffmanTable(pos, impl) ==
    IF ~Check(pos, CountsLen)
      THEN [exc |-> "IOE", pos |-> pos, ht |-> NoTable]
    ELSE IF impl.fails = "counts"
      THEN [exc |-> "RSE", pos |-> pos + CountsLen, ht |-> NoTable]
    ELSE IF ~Check(pos + CountsLen, impl.count)
      THEN [exc |-> "IOE", pos |-> pos + CountsLen, ht |-> NoTable]
    ELSE IF impl.fails = "values"
      THEN [exc |-> "RSE", pos |-> pos + CountsLen + impl.count, ht |-> NoTable]
    ELSE IF ~Check(pos + CountsLen + impl.count, FlagsLen)
      THEN [exc |-> "IOE", pos |-> pos + CountsLen + impl.count, ht |-> NoTable]
    ELSE IF impl.fails = "setup"
      THEN [exc |-> "RSE", pos |-> pos + CountsLen + impl.count + FlagsLen,
            ht |-> NoTable]
    ELSE [exc |-> "none", pos |-> pos + CountsLen + impl.count + FlagsLen,
          ht |-> [built |-> TRUE, full |-> impl.full]]

\* Faulty variant: the construction handler lets IOException through.
CtorCatch_Rethrow(e) == IsRawspeedException(e) /\ ~IsIOException(e)

\* catch (const rawspeed::RawspeedException&) around createHuffmanTable:
\* TRUE when the handler takes the exception and sets the failure flag.
CtorCatch(e) == IsRawspeedException(e)

\* Faulty variant: the success/failure agreement of the two constructions is not
\* asserted.
ConstructionVerdict_NoAgree(failure0, failure1, p0, p1) ==
    IF failure0 \/ failure1 THEN "return0"
    ELSE IF p0 # p1 THEN "abort148"
    ELSE IF ~(p0 >= MinHeader) THEN "abort149"
    ELSE "continue"

\* Faulty variant: the minimum header length is not asserted.
ConstructionVerdict_NoMin(failure0, failure1, p0, p1) ==
    IF failure0 # failure1 THEN "abort140"
    ELSE IF failure0 \/ failure1 THEN "return0"
    ELSE IF p0 # p1 THEN "abort148"
    ELSE "continue"

\* The checks that follow the two constructions.
ConstructionVerdict(failure0, failure1, p0, p1) ==
    IF failure0 # failure1 THEN "abort140"
    ELSE IF failure0 \/ failure1 THEN "return0"
    ELSE IF p0 # p1 THEN "abort148"
    ELSE IF ~(p0 >= MinHeader) THEN "abort149"
    ELSE "continue"

(* ------------------------- bit pump selection -------------------------- *)
\* Faulty variant: an unknown selector falls back to the MSB pump.
PumpFor_Default(byte) ==
    CASE byte = 0 -> "BitPumpMSB"
      [] byte = 1 -> "BitPumpMSB32"
      [] byte = 2 -> "BitPumpJPEG"
      [] OTHER    -> "BitPumpMSB"


\* Faulty variant: case 1 instantiates the pump of case 0.
PumpFor_CopyPaste(byte) ==
    CASE byte = 0 -> "BitPumpMSB"
      [] byte = 1 -> "BitPumpMSB"
      [] byte = 2 -> "BitPumpJPEG"
      [] OTHER    -> "Unknown bit pump"

\* switch (bs0.getByte())
PumpFor(byte) ==
    CASE byte = 0 -> "BitPumpMSB"
      [] byte = 1 -> "BitPumpMSB32"
      [] byte = 2 -> "BitPumpJPEG"
      [] OTHER    -> "Unknown bit pump"

Pumps == {"BitPumpMSB", "BitPumpMSB32", "BitPumpJPEG"}

\* Faulty variant: the full-decode flags are not compared.
TableVerdict_NoFlag(p0, p1, full0, full1) ==
    IF p0 # p1 THEN "abort102" ELSE "continue"

\* The two assertions of checkHuffmanTable.
TableVerdict(p0, p1, full0, full1) ==
    IF p0 # p1 THEN "abort102"
    ELSE IF full0 # full1 THEN "abort103"
    ELSE "continue"

(* ------------------------------ decode --------------------------------- *)
\* What one implementation answers to one decode call:
\*   k    : the bits the call needs
\*   kind : whether those bits are a code of the table
\*   v    : the value the code maps to
DecodeAnswers ==
    [k : 1 .. MaxCodeLen, kind : {"code", "invalid"}, v : Values]

\* ht.decode<Pump, IsFullDecode>(bits) on a pump with `bits` bits left.
decode(bits, d) ==
    IF d.k > bits THEN [exc |-> "IOE", bits |-> bits, v |-> 0]
    ELSE IF d.kind = "invalid" THEN [exc |-> "RSE", bits |-> bits - d.k, v |-> 0]
    ELSE [exc |-> "none", bits |-> bits - d.k, v |-> d.v]

\* Faulty variant: the loop's handlers record an IOException as a failure.
LoopCatch_Absorb(e) ==
    IF IsIOException(e) THEN "failure"
    ELSE IF IsRawspeedException(e) THEN "failure"
    ELSE "value"


\* Faulty variant: the loop's handlers swallow an IOException and go on.
LoopCatch_Swallow(e) ==
    IF IsIOException(e) THEN "value"
    ELSE IF IsRawspeedException(e) THEN "failure"
    ELSE "value"

\* The two handlers around each decode call of workloop.
LoopCatch(e) ==
    IF IsIOException(e) THEN "rethrow"
    ELSE IF IsRawspeedException(e) THEN "failure"
    ELSE "value"

\* Faulty variant: the failure flags are not asserted equal.
StepVerdict_NoAgree(failure0, failure1, decoded0, decoded1) ==
    IF failure0 \/ failure1 THEN "throw"
    ELSE IF decoded0 # decoded1 THEN "abort94"
    ELSE "continue"

\* Faulty variant: the decoded values are not asserted equal.
StepVerdict_NoEqual(failure0, failure1, decoded0, decoded1) ==
    IF failure0 # failure1 THEN "abort84"
    ELSE IF failure0 \/ failure1 THEN "throw"
    ELSE "continue"

\* Faulty variant: an agreed failure does not stop the loop.
StepVerdict_NoThrow(failure0, failure1, decoded0, decoded1) ==
    IF failure0 # failure1 THEN "abort84"
    ELSE IF failure0 \/ failure1 THEN "continue"
    ELSE IF decoded0 # decoded1 THEN "abort94"
    ELSE "continue"

\* Faulty variant: the decoded values are compared before the failure flags.
StepVerdict_ValuesFirst(failure0, failure1, decoded0, decoded1) ==
    IF decoded0 # decoded1 THEN "abort94"
    ELSE IF failure0 # failure1 THEN "abort84"
    ELSE IF failure0 \/ failure1 THEN "throw"
    ELSE "continue"


\* Faulty variant: an agreed failure leaves the loop with a plain return.
StepVerdict_Return(failure0, failure1, decoded0, decoded1) ==
    IF failure0 # failure1 THEN "abort84"
    ELSE IF failure0 \/ failure1 THEN "return"
    ELSE IF decoded0 # decoded1 THEN "abort94"
    ELSE "continue"


\* Faulty variant: the failure flags are asserted equal but a failure does
\* not stop the loop before the values are compared.
StepVerdict_FailureUnchecked(failure0, failure1, decoded0, decoded1) ==
    IF failure0 # failure1 THEN "abort84"
    ELSE IF decoded0 # decoded1 THEN "abort94"
    ELSE "continue"

\* The end of one iteration of workloop.
StepVerdict(failure0, failure1, decoded0, decoded1) ==
    IF failure0 # failure1 THEN "abort84"
    ELSE IF failure0 \/ failure1 THEN "throw"
    ELSE IF decoded0 # decoded1 THEN "abort94"
    ELSE "continue"

(* --------------------------- one invocation ---------------------------- *)
\* The state of one call of LLVMFuzzerTestOneInput.
\*   pc                   where the call stands
\*   bs0, bs1             positions of the two byte streams
\*   failure0, failure1   the flags of LLVMFuzzerTestOneInput
\*   ht0, ht1             the two tables
\*   Pump, IsFullDecode   template arguments of workloop
\*   bits0, bits1         bits left in the two pumps
\*   wfailure0, wfailure1, decoded0, decoded1   the locals of workloop
\*   ret                  "running", "return0" or "abort"
\* and, for the record only:
\*   cons0, cons1         how each construction ended ("ok", "RSE", "IOE")
\*   sel                  the selector byte read, -1 before
\*   r0, r1               how each decode call of the current step ended
\*   ndec0, ndec1         decode calls made on each side
\*   steps                iterations completed
\*   cause                what ended the call
InitRun ==
    [pc |-> "ctor0", bs0 |-> 0, bs1 |-> 0,
     failure0 |-> FALSE, failure1 |-> FALSE,
     ht0 |-> NoTable, ht1 |-> NoTable,
     Pump |-> "none", IsFullDecode |-> FALSE,
     bits0 |-> 0, bits1 |-> 0,
     wfailure0 |-> FALSE, wfailure1 |-> FALSE,
     decoded0 |-> 0, decoded1 |-> 0,
     ret |-> "running",
     cons0 |-> "none", cons1 |-> "none", sel |-> -1,
     r0 |-> "none", r1 |-> "none", ndec0 |-> 0, ndec1 |-> 0,
     steps |-> 0, cause |-> "none"]

Class(e) == IF e = "none" THEN "ok" ELSE e

\* catch (const rawspeed::RawspeedException&) { return 0; }
Return0(s, why) == [s EXCEPT !.pc = "done", !.ret = "return0", !.cause = why]

\* A failed assert.
Abort(s, why) == [s EXCEPT !.pc = "done", !.ret = "abort", !.cause = why]


\* workloop and checkHuffmanTable returning to the switch: break, then
\* __builtin_unreachable(), after which the build may do anything.
Fallthrough(s) ==
    [s EXCEPT !.pc = "done", !.ret = "undefined", !.cause = "unreachable"]

\* try { ht0 = createHuffmanTable<decltype(ht0)>(bs0); } catch ...
Ctor0(s, impl) ==
    LET c == createHuffmanTable(s.bs0, impl)
        t == [s EXCEPT !.bs0 = c.pos, !.cons0 = Class(c.exc)]
    IN  IF c.exc = "none" THEN [t EXCEPT !.ht0 = c.ht, !.pc = "ctor1"]
        ELSE IF CtorCatch(c.exc) THEN [t EXCEPT !.failure0 = TRUE, !.pc = "ctor1"]
        ELSE Return0(t, c.exc)

\* try { ht1 = createHuffmanTable<decltype(ht1)>(bs1); } catch ...
Ctor1(s, impl) ==
    LET c == createHuffmanTable(s.bs1, impl)
        t == [s EXCEPT !.bs1 = c.pos, !.cons1 = Class(c.exc)]
    IN  IF c.exc = "none" THEN [t EXCEPT !.ht1 = c.ht, !.pc = "checkctor"]
        ELSE IF CtorCatch(c.exc) THEN [t EXCEPT !.failure1 = TRUE, !.pc = "checkctor"]
        ELSE Return0(t, c.exc)

\* assert(failure0 == failure1) ... assert(bs0.getPosition() >= 19)
CheckCtor(s) ==
    LET v == ConstructionVerdict(s.failure0, s.failure1, s.bs0, s.bs1)
    IN  IF v = "continue" THEN [s EXCEPT !.pc = "select"]
        ELSE IF v = "return0" THEN Return0(s, "construction failed")
        ELSE Abort(s, v)


\* Faulty variant: the selector byte is read from bs0 but not skipped on bs1.
Select_NoSkip(s) ==
    LET gb == getByte(s.bs0)
        u  == [s EXCEPT !.bs0 = gb.pos, !.sel = gb.byte]
    IN  IF gb.exc # "none" THEN Return0(s, gb.exc)
        ELSE IF PumpFor(gb.byte) \in Pumps
          THEN [u EXCEPT !.Pump = PumpFor(gb.byte), !.pc = "check"]
        ELSE Return0(u, "Unknown bit pump")

\* bs1.skipBytes(1); switch (bs0.getByte()) ...
Select(s) ==
    LET sk == skipBytes(s.bs1, 1)
        gb == getByte(s.bs0)
        t  == [s EXCEPT !.bs1 = sk.pos]
        u  == [t EXCEPT !.bs0 = gb.pos, !.sel = gb.byte]
    IN  IF sk.exc # "none" THEN Return0(t, sk.exc)
        ELSE IF gb.exc # "none" THEN Return0(t, gb.exc)
        ELSE IF PumpFor(gb.byte) \in Pumps
          THEN [u EXCEPT !.Pump = PumpFor(gb.byte), !.pc = "check"]
        ELSE Return0(u, "Unknown bit pump")

\* checkHuffmanTable, up to the construction of the two pumps in workloop.
CheckHuffmanTable(s) ==
    LET v == TableVerdict(s.bs0, s.bs1, s.ht0.full, s.ht1.full)
    IN  IF v = "continue"
          THEN [s EXCEPT !.IsFullDecode = s.ht0.full,
                         !.bits0 = BitsPerByte * (Size - s.bs0),
                         !.bits1 = BitsPerByte * (Size - s.bs1),
                         !.pc = "dec0"]
        ELSE Abort(s, v)


\* Faulty variant: both decoders read from one pump, so side 0's decode also
\* takes its bits from side 1.
Decode0_SharedPump(s, d, g0, g1) ==
    LET r == decode(s.bits0, d)
        h == LoopCatch(r.exc)
        t == [s EXCEPT !.decoded0 = g0, !.decoded1 = g1,
                       !.wfailure0 = FALSE, !.wfailure1 = FALSE,
                       !.bits0 = r.bits, !.bits1 = r.bits, !.ndec0 = @ + 1,
                       !.r0 = Class(r.exc), !.r1 = "none"]
    IN  IF h = "rethrow" THEN Return0(t, r.exc)
        ELSE IF h = "failure" THEN [t EXCEPT !.wfailure0 = TRUE, !.pc = "dec1"]
        ELSE [t EXCEPT !.decoded0 = r.v, !.pc = "dec1"]

\* Top of an iteration and the first try block; g0, g1 are what the two
\* uninitialized ints happen to hold.
Decode0(s, d, g0, g1) ==
    LET r == decode(s.bits0, d)
        h == LoopCatch(r.exc)
        t == [s EXCEPT !.decoded0 = g0, !.decoded1 = g1,
                       !.wfailure0 = FALSE, !.wfailure1 = FALSE,
                       !.bits0 = r.bits, !.ndec0 = @ + 1,
                       !.r0 = Class(r.exc), !.r1 = "none"]
    IN  IF h = "rethrow" THEN Return0(t, r.exc)
        ELSE IF h = "failure" THEN [t EXCEPT !.wfailure0 = TRUE, !.pc = "dec1"]
        ELSE [t EXCEPT !.decoded0 = r.v, !.pc = "dec1"]

\* The second try block.
Decode1(s, d) ==
    LET r == decode(s.bits1, d)
        h == LoopCatch(r.exc)
        t == [s EXCEPT !.bits1 = r.bits, !.ndec1 = @ + 1, !.r1 = Class(r.exc)]
    IN  IF h = "rethrow" THEN Return0(t, r.exc)
        ELSE IF h = "failure" THEN [t EXCEPT !.wfailure1 = TRUE, !.pc = "cmp"]
        ELSE [t EXCEPT !.decoded1 = r.v, !.pc = "cmp"]

\* assert(failure0 == failure1) ... assert(decoded0 == decoded1)
Compare(s) ==
    LET v == StepVerdict(s.wfailure0, s.wfailure1, s.decoded0, s.decoded1)
    IN  IF v = "continue" THEN [s EXCEPT !.steps = @ + 1, !.pc = "dec0"]
        ELSE IF v = "throw" THEN Return0(s, "Failure detected")
        ELSE IF v = "return" THEN Fallthrough(s)
        ELSE Abort(s, v)

(* ---------------------------- the system ------------------------------- *)
Init ==
    /\ Data \in Buffers
    /\ inv = InitRun
    /\ twin = InitRun

\* The second invocation takes the same step with the same answers.
Twin(pc, next) == twin' = IF twin.pc = pc THEN next ELSE twin

Construct0 ==
    /\ inv.pc = "ctor0"
    /\ \E impl \in ImplAnswers :
         /\ inv' = Ctor0(inv, impl)
         /\ Twin("ctor0", Ctor0(twin, impl))
    /\ UNCHANGED Data

Construct1 ==
    /\ inv.pc = "ctor1"
    /\ \E impl \in ImplAnswers :
         /\ inv' = Ctor1(inv, impl)
         /\ Twin("ctor1", Ctor1(twin, impl))
    /\ UNCHANGED Data

CheckConstruction ==
    /\ inv.pc = "checkctor"
    /\ inv' = CheckCtor(inv)
    /\ Twin("checkctor", CheckCtor(twin))
    /\ UNCHANGED Data

SelectPump ==
    /\ inv.pc = "select"
    /\ inv' = Select(inv)
    /\ Twin("select", Select(twin))
    /\ UNCHANGED Data

CheckTable ==
    /\ inv.pc = "check"
    /\ inv' = CheckHuffmanTable(inv)
    /\ Twin("check", CheckHuffmanTable(twin))
    /\ UNCHANGED Data

DecodeSide0 ==
    /\ inv.pc = "dec0"
    /\ \E d \in DecodeAnswers, g0, g1, h0, h1 \in Values :
         /\ inv' = Decode0(inv, d, g0, g1)
         /\ Twin("dec0", Decode0(twin, d, h0, h1))
    /\ UNCHANGED Data

DecodeSide1 ==
    /\ inv.pc = "dec1"
    /\ \E d \in DecodeAnswers :
         /\ inv' = Decode1(inv, d)
         /\ Twin("dec1", Decode1(twin, d))
    /\ UNCHANGED Data

CompareStep ==
    /\ inv.pc = "cmp"
    /\ inv' = Compare(inv)
    /\ Twin("cmp", Compare(twin))
    /\ UNCHANGED Data

Next ==
    \/ Construct0
    \/ Construct1
    \/ CheckConstruction
    \/ SelectPump
    \/ CheckTable
    \/ DecodeSide0
    \/ DecodeSide1
    \/ CompareStep

Spec == Init /\ [][Next]_vars


\* The harness is one sequential call: as long as it has not ended, its next
\* statement is executed.
FairSpec == Spec /\ WF_vars(Next)

(* ------------------------------ claims --------------------------------- *)
Done(s)     == s.pc = "done"
Returned(s) == s.pc = "done" /\ s.ret = "return0"
Aborted(s)  == s.pc = "done" /\ s.ret = "abort"
NoDecode(s) == s.ndec0 = 0 /\ s.ndec1 = 0

\* C1: a decode step in which neither call ran out of input and exactly one
\* side failed structurally while the other returned a value is followed by
\* nothing but the comparison, and the comparison aborts: the invocation
\* neither returns normally nor starts another step.
C1_OneSidedFailureAborts ==
    {inv.r0, inv.r1} = {"RSE", "ok"} => inv.pc = "cmp" \/ Aborted(inv)

\* A later step in which side 0 failed and side 1 decoded a value has aborted.
C1_Witness ==
    /\ Aborted(inv) /\ inv.r0 = "RSE" /\ inv.r1 = "ok" /\ inv.steps >= 1

\* C2: a decode step in which both sides returned a value and the values
\* differ aborts; the loop goes on to the next step only with equal values.
C2_ValueMismatchAborts ==
    /\ (inv.r0 = "ok" /\ inv.r1 = "ok" /\ inv.decoded0 # inv.decoded1)
          => inv.pc = "cmp" \/ Aborted(inv)
    /\ (inv.pc = "dec0" /\ inv.steps >= 1)
          => inv.r0 = "ok" /\ inv.r1 = "ok" /\ inv.decoded0 = inv.decoded1

\* Both sides decoded, to different values, and the invocation aborted.
C2_Witness ==
    /\ Aborted(inv) /\ inv.r0 = "ok" /\ inv.r1 = "ok"
    /\ inv.decoded0 # inv.decoded1

\* C3: once both constructions were attempted, if exactly one failed the
\* invocation aborts; if both failed it returns normally, no selector byte
\* was read and no decode call was made.
C3_ConstructionAgreement ==
    /\ (inv.cons0 # "none" /\ inv.cons1 # "none"
          /\ (inv.cons0 = "ok") # (inv.cons1 = "ok"))
          => inv.pc = "checkctor" \/ Aborted(inv)
    /\ (inv.cons0 \in Exceptions /\ inv.cons1 \in Exceptions)
          => \/ inv.pc = "checkctor"
             \/ Returned(inv) /\ inv.sel = -1 /\ NoDecode(inv)
                  /\ inv.Pump = "none"

\* Side 0 rejected the header, side 1 accepted it, and the invocation aborted.
C3_Witness ==
    Aborted(inv) /\ inv.cons0 = "RSE" /\ inv.cons1 = "ok"

\* C4: when both constructions succeed and the two full-decode flags differ,
\* the invocation ends in an abort, whatever the selector byte is and also
\* when there is none.
C4_FlagMismatchAborts ==
    (Done(inv) /\ inv.cons0 = "ok" /\ inv.cons1 = "ok"
       /\ inv.ht0.full # inv.ht1.full) => inv.ret = "abort"

C6_LoopExhaustionReturns ==
    /\ inv.r0 = "IOE"
          => /\ Returned(inv) /\ inv.cause = "IOE"
             /\ inv.r1 = "none" /\ inv.ndec1 = inv.ndec0 - 1
    /\ inv.r1 = "IOE"
          => /\ Returned(inv) /\ inv.cause = "IOE"
             /\ inv.r0 \in {"ok", "RSE"} /\ inv.ndec1 = inv.ndec0

\* Side 0 failed structurally, side 1 ran out of input, and the invocation
\* returned.
C6_Witness ==
    Returned(inv) /\ inv.r0 = "RSE" /\ inv.r1 = "IOE"

\* C7: a selector byte outside {0,1,2}, read after both constructions
\* succeeded, ends the invocation with a normal return through "Unknown bit
\* pump": no pump is created, no decode call is made, nothing aborts.
C7_UnknownPumpReturns ==
    (inv.sel # -1 /\ inv.sel \notin {0, 1, 2})
       => /\ Returned(inv) /\ inv.cause = "Unknown bit pump"
          /\ inv.Pump = "none" /\ NoDecode(inv)
          /\ inv.cons0 = "ok" /\ inv.cons1 = "ok"

\* The selector byte 3 was read and the invocation returned.
C7_Witness ==
    Returned(inv) /\ inv.sel = 3

Short == Size < MinHeader

\* C8 as stated: a buffer shorter than 19 bytes is rejected via exhaustion:
\* the invocation returns normally, because input ran out and not because
\* of a structural failure, and reaches neither the selector nor a decode.
C8_ShortIsExhaustion ==
    (Short /\ Done(inv))
       => /\ inv.ret = "return0"
          /\ "IOE" \in {inv.cons0, inv.cons1}
          /\ "RSE" \notin {inv.cons0, inv.cons1}
          /\ inv.sel = -1 /\ NoDecode(inv)

\* C8 as the code has it: with a buffer shorter than 19 bytes the selector
\* read and the decode loop are never reached.  The invocation returns
\* normally exactly when both constructions fail, by exhaustion or by a
\* structural failure alike (the harness does not tell them apart), and
\* aborts at the checks after construction otherwise.
C8_ShortIsRejected ==
    Short
       => /\ inv.pc \in {"ctor0", "ctor1", "checkctor", "done"}
          /\ inv.sel = -1 /\ NoDecode(inv) /\ inv.Pump = "none"
          /\ Done(inv)
               => /\ inv.ret = "return0"
                     <=> (inv.cons0 \in Exceptions /\ inv.cons1 \in Exceptions)
                  /\ inv.ret = "return0" => inv.cause = "construction failed"
                  /\ inv.ret = "abort"
                       => inv.cause \in {"abort140", "abort148", "abort149"}

\* A short buffer was rejected by both sides for its malformed header.
C8_Witness ==
    Short /\ Returned(inv) /\ inv.cons0 = "RSE" /\ inv.cons1 = "RSE"

\* C9: two invocations on the same buffer, given the same answers by the
\* decoders and bit pumps, stand at the same place at every moment and end
\* alike, after the same number of decode calls and steps and for the same
\* reason, whatever the uninitialized decoded0 and decoded1 held.
C9_SameOutcome ==
    /\ twin.pc = inv.pc /\ twin.ret = inv.ret /\ twin.cause = inv.cause
    /\ twin.ndec0 = inv.ndec0 /\ twin.ndec1 = inv.ndec1
    /\ twin.steps = inv.steps

\* Both invocations ended in a step where side 0 assigned no value and the
\* two runs' decoded0 held different leftovers.
C9_Witness ==
    /\ Done(inv) /\ Done(twin) /\ inv.r0 = "RSE"
    /\ inv.decoded0 # twin.decoded0

\* C10: a decode step in which both sides failed structurally is followed
\* by nothing but the comparison, which ends the invocation with a normal
\* return: no assertion fails and no further decode call is made.
C10_AgreedFailureReturns ==
    (inv.r0 = "RSE" /\ inv.r1 = "RSE")
       => \/ inv.pc = "cmp"
          \/ /\ Returned(inv) /\ inv.cause = "Failure detected"
             /\ inv.ndec0 = inv.steps + 1 /\ inv.ndec1 = inv.steps + 1

\* Both sides failed structurally in a later step and the invocation returned.
C10_Witness ==
    Returned(inv) /\ inv.r0 = "RSE" /\ inv.r1 = "RSE" /\ inv.steps >= 1

\* Every decode call but the last takes at least one bit from its pump, so
\* the calls on one side, together with the bits its pump still holds, never
\* exceed the bits of the payload by more than one.
DecodeCallsBounded ==
    /\ inv.ndec0 + inv.bits0 <= BitsPerByte * (Size - inv.bs0) + 1
    /\ inv.ndec1 + inv.bits1 <= BitsPerByte * (Size - inv.bs1) + 1

\* The invocation ended in the loop without a structural failure and without
\* unequal values in its last step.
EveryStepAgreed ==
    /\ Done(inv) /\ inv.ndec0 >= 1
    /\ inv.r0 # "RSE" /\ inv.r1 # "RSE"
    /\ ~(inv.r0 = "ok" /\ inv.r1 = "ok" /\ inv.decoded0 # inv.decoded1)

\* C11: every invocation eventually ends, by a normal return or an abort:
\* each successful decode takes at least one bit and a pump with too few bits
\* left reports exhaustion, so the number of decode calls is bounded by the
\* bits of the payload; and an invocation whose every step succeeded on both
\* sides with equal values ends by exhaustion with a normal return.
C11_Terminates ==
    /\ <>Done(inv)
    /\ []DecodeCallsBounded
    /\ [](EveryStepAgreed => Returned(inv) /\ inv.cause = "IOE")

\* After at least two agreed steps the payload ran out and the invocation
\* returned.
C11_Witness ==
    Returned(inv) /\ inv.cause = "IOE" /\ inv.steps >= 2

InLoop(s) == s.pc \in {"dec0", "dec1", "cmp"}

\* Where the two cursors stand at each point of the invocation.
CursorsAligned ==
    /\ inv.pc = "ctor0" => inv.bs0 = 0 /\ inv.bs1 = 0
    /\ inv.pc = "ctor1" => inv.bs1 = 0
    /\ inv.pc = "select" => inv.bs0 = inv.bs1
    /\ (inv.pc = "check" \/ InLoop(inv) \/ inv.ndec0 >= 1)
          => /\ inv.bs0 = inv.bs1
             /\ inv.sel = Data[inv.bs0]
    /\ (inv.cons0 = "ok" /\ inv.cons1 = "ok" /\ inv.bs0 # inv.bs1)
          => inv.pc = "checkctor" \/ (Aborted(inv) /\ inv.cause = "abort148")

\* Selector handling moves each cursor by exactly one byte.
SelectorMovesBothByOne ==
    (inv.pc = "select" /\ inv'.pc # "select" /\ inv'.sel # -1)
       => inv'.bs0 = inv.bs0 + 1 /\ inv'.bs1 = inv.bs1 + 1

\* C12: both cursors start at position 0; a run that gets past the check
\* after header parsing, and past the one at the entry of checkHuffmanTable,
\* has them at equal positions there, selector handling having moved each by
\* exactly one byte; unequal positions after two successful constructions
\* end the invocation in an abort, never in a normal return nor in a decode.
C12_CursorCheckpoints ==
    []CursorsAligned /\ [][SelectorMovesBothByOne]_vars

\* The two constructions succeeded after reading different numbers of bytes,
\* and the invocation aborted at the first checkpoint.
C12_Witness ==
    /\ Aborted(inv) /\ inv.cause = "abort148"
    /\ inv.cons0 = "ok" /\ inv.cons1 = "ok" /\ inv.bs0 # inv.bs1

\* What belongs to each side: its cursor, its pump and its table.
Side0(s) == <<s.bs0, s.bits0, s.ht0>>
Side1(s) == <<s.bs1, s.bits1, s.ht1>>

\* A step taken at a call on one side leaves the other side as it was, a
\* decode call leaves both tables as they were, and no step touches the
\* buffer.
SidesAreSeparate ==
    /\ Data' = Data
    /\ inv.pc = "ctor0" => Side1(inv') = Side1(inv)
    /\ inv.pc = "ctor1" => Side0(inv') = Side0(inv)
    /\ inv.pc = "dec0"
          => Side1(inv') = Side1(inv) /\ inv'.ht0 = inv.ht0
               /\ inv'.bs0 = inv.bs0
    /\ inv.pc = "dec1"
          => Side0(inv') = Side0(inv) /\ inv'.ht1 = inv.ht1
               /\ inv'.bs1 = inv.bs1

\* C13: the two sides share no mutable state: a construction or a decode
\* call on one side leaves the other side's cursor, pump and table
\* unchanged, the input buffer is never modified, and no decode call
\* changes either table.
C13_NoSharedState == [][SidesAreSeparate]_vars

\* Side 0 has decoded again and its pump holds fewer bits than side 1's,
\* which has not been read in this step.
C13_Witness ==
    inv.pc = "dec1" /\ inv.ndec0 >= 2 /\ inv.bits0 < inv.bits1

\* In and after the loop, the pump type of both bits0 and bits1 is the one
\* the selector byte names, and the decode mode of both calls is the flag
\* both tables report.
StrategyAndModeShared ==
    (InLoop(inv) \/ inv.ndec0 >= 1)
       => /\ inv.sel \in {0, 1, 2}
          /\ inv.sel = 0 => inv.Pump = "BitPumpMSB"
          /\ inv.sel = 1 => inv.Pump = "BitPumpMSB32"
          /\ inv.sel = 2 => inv.Pump = "BitPumpJPEG"
          /\ inv.ht0.built /\ inv.ht1.built
          /\ inv.IsFullDecode = inv.ht0.full
          /\ inv.IsFullDecode = inv.ht1.full

\* No step of the loop changes the pump type, the mode or a table's flag.
StrategyAndModeFixed ==
    InLoop(inv)
       => /\ inv'.Pump = inv.Pump
          /\ inv'.IsFullDecode = inv.IsFullDecode
          /\ inv'.sel = inv.sel
          /\ inv'.ht0 = inv.ht0 /\ inv'.ht1 = inv.ht1

\* C14: in every decode step both sides use the same bit pump and the same
\* decode mode: the pump is the one the single selector byte maps to (0 the
\* MSB pump, 1 the MSB32 pump, 2 the JPEG pump), the mode is the full-decode
\* flag the tables were built with, and neither changes between the steps of
\* one invocation.
C14_SameStrategyAndMode ==
    []StrategyAndModeShared /\ [][StrategyAndModeFixed]_vars

\* A later step decodes with the MSB32 pump in the mode without full decode.
C14_Witness ==
    /\ inv.pc = "dec1" /\ inv.steps >= 1
    /\ inv.Pump = "BitPumpMSB32" /\ ~inv.IsFullDecode

\* What holds whenever a decode call is about to be made or has been made.
DecodePreconditions ==
    (InLoop(inv) \/ inv.ndec0 >= 1 \/ inv.ndec1 >= 1)
       => /\ inv.cons0 = "ok" /\ inv.cons1 = "ok"
          /\ ~inv.failure0 /\ ~inv.failure1
          /\ inv.bs0 = inv.bs1
          /\ inv.bs0 - 1 >= MinHeader
          /\ inv.sel \in {0, 1, 2} /\ inv.sel = Data[inv.bs0]
          /\ inv.ht0.full = inv.ht1.full

\* Both tables were built and the buffer ends where the header ends.
EndsAfterHeader ==
    /\ inv.cons0 = "ok" /\ inv.cons1 = "ok"
    /\ inv.bs0 = inv.bs1 /\ inv.bs0 >= MinHeader /\ inv.bs0 = Size
    /\ inv.sel = -1

\* C15: a decode call is made only after both constructions succeeded, both
\* cursors stood at the same position, at least 19, after header parsing,
\* a selector byte in {0,1,2} was consumed from both cursors, and the two
\* full-decode flags were found equal; a buffer that ends right after the
\* header returns normally with no decode call.
C15_DecodeOnlyWhenReady ==
    /\ DecodePreconditions
    /\ EndsAfterHeader
          => \/ inv.pc \in {"checkctor", "select"}
             \/ Returned(inv) /\ inv.cause = "IOE" /\ NoDecode(inv)

\* Decoding has begun on a 21-byte buffer whose header took 19 bytes.
C15_Witness ==
    inv.ndec1 >= 1 /\ inv.steps >= 1 /\ inv.bs0 = MinHeader + 1

\* C16: the decode loop is never left by falling through: workloop and
\* checkHuffmanTable never return to the switch, so the point after the
\* outer try block is never reached; an invocation that made a decode call
\* ends by exhaustion or by an agreed structural failure, both returning 0,
\* or by a failed assert of the loop; and every invocation that ends without
\* aborting returns 0.
C16_NoFallthrough ==
    /\ inv.cause # "unreachable" /\ inv.ret # "undefined"
    /\ Done(inv) => inv.ret \in {"return0", "abort"}
    /\ ~Done(inv) => inv.ret = "running"
    /\ (Done(inv) /\ inv.ndec0 >= 1)
          => \/ inv.ret = "return0" /\ inv.cause \in {"IOE", "Failure detected"}
             \/ inv.ret = "abort" /\ inv.cause \in {"abort84", "abort94"}

\* After a completed step side 1's decode ran out of input and the invocation
\* returned 0.
C16_Witness ==
    Returned(inv) /\ inv.r1 = "IOE" /\ inv.steps >= 1

\* How the decode calls of the two sides are counted at each point.
CallsInLockstep ==
    /\ inv.ndec0 - inv.ndec1 \in {0, 1}
    /\ inv.pc = "dec0" => inv.ndec0 = inv.steps /\ inv.ndec1 = inv.steps
    /\ inv.pc = "dec1" => inv.ndec0 = inv.steps + 1 /\ inv.ndec1 = inv.steps
    /\ inv.pc = "cmp"  => inv.ndec0 = inv.steps + 1 /\ inv.ndec1 = inv.steps + 1

\* A call on side 1 follows the call on side 0 of the same step; a call on
\* side 0 opens a step, and any step but the first is opened only after a
\* step in which both sides returned a value, the same one.
CallsInOrder ==
    /\ inv'.ndec1 # inv.ndec1
          => /\ inv'.ndec1 = inv.ndec1 + 1
             /\ inv.ndec0 = inv.ndec1 + 1 /\ inv'.ndec0 = inv.ndec0
    /\ inv'.ndec0 # inv.ndec0
          => /\ inv'.ndec0 = inv.ndec0 + 1
             /\ inv.ndec0 = inv.ndec1 /\ inv'.ndec1 = inv.ndec1
             /\ inv.ndec0 >= 1
                  => /\ inv.r0 = "ok" /\ inv.r1 = "ok"
                     /\ inv.decoded0 = inv.decoded1

\* C17: the two sides advance in lockstep: the decode calls made on side 0
\* are as many as those made on side 1, or one more; within a step side 0 is
\* decoded before side 1; and a step begins only after the one before it
\* ended with both sides returning equal values.
C17_Lockstep ==
    []CallsInLockstep /\ [][CallsInOrder]_vars

\* In the third step side 0 has been decoded and side 1 has not yet.
C17_Witness ==
    inv.pc = "dec1" /\ inv.ndec0 = 3 /\ inv.ndec1 = 2

====
